---- MODULE Spec2Model ----
(***************************************************************************)
(* Model of homework.py: a bot that polls the homework-review API every    *)
(* RETRY_PERIOD seconds and relays status changes and failures to one      *)
(* Telegram chat.                                                          *)
(*                                                                         *)
(* The text literals of the source are Cyrillic; they are rendered here in *)
(* ASCII, one distinct ASCII literal per source literal, and f-strings are *)
(* modelled by string concatenation of the same pieces in the same order.  *)
(***************************************************************************)
EXTENDS Integers, Sequences, FiniteSets, TLC

(***************************************************************************)
(* Bounds of the exploration.                                              *)
(***************************************************************************)
\* number of poll iterations explored
MaxIter == 3
\* largest length of the "homeworks" list of a response
MaxHw == 2

(***************************************************************************)
(* Program constants.                                                      *)
(***************************************************************************)
RETRY_PERIOD == 600
HTTP_OK == 200

(***************************************************************************)
(* Python values.  Every value carries its type tag t, an integer payload  *)
(* n and a text payload s, so that values of different types compare.      *)
(***************************************************************************)
PyInt(k) == [t |-> "int", n |-> k, s |-> ""]
PyBool(b) == [t |-> "bool", n |-> IF b THEN 1 ELSE 0, s |-> ""]
PyStr(x) == [t |-> "str", n |-> 0, s |-> x]
PyNone == [t |-> "NoneType", n |-> 0, s |-> ""]
\* the empty list [] where a scalar is expected (an unhashable value)
PyEmptyList == [t |-> "list", n |-> 0, s |-> ""]

\* bool(v)
Truthy(v) ==
    CASE v.t = "int" -> v.n # 0
      [] v.t = "bool" -> v.n = 1
      [] v.t = "str" -> v.s # ""
      [] OTHER -> FALSE

\* str(v), as an f-string placeholder renders v
Str(v) ==
    CASE v.t = "int" -> ToString(v.n)
      [] v.t = "bool" -> (IF v.n = 1 THEN "True" ELSE "False")
      [] v.t = "str" -> v.s
      [] v.t = "NoneType" -> "None"
      [] OTHER -> "[]"

\* isinstance(v, int): bool is a subclass of int
IsInstanceInt(v) == v.t \in {"int", "bool"}

\* hash(v) is defined
Hashable(v) == v.t \notin {"list", "dict"}

(***************************************************************************)
(* Exceptions: the class and the constructor's argument.                   *)
(***************************************************************************)
Exc(kind, text) == [kind |-> kind, text |-> text]
NoExc == Exc("", "")

\* str(error): KeyError renders the repr of its argument, the others the
\* argument itself
ExcStr(e) == IF e.kind = "KeyError" THEN "'" \o e.text \o "'" ELSE e.text

(***************************************************************************)
(* StatusCatalog.                                                          *)
(***************************************************************************)
HOMEWORK_VERDICTS ==
    [approved |-> "Work checked: the reviewer liked everything. Hooray!",
     reviewing |-> "Work taken for review by the reviewer.",
     rejected |-> "Work checked: the reviewer has remarks."]

(***************************************************************************)
(* JSON payloads.  A homework record and a response carry their type tag,  *)
(* the set of keys present and the values under the keys the program       *)
(* reads (PyNone under an absent key).                                     *)
(***************************************************************************)
HwDict(keys, name, status) ==
    [t |-> "dict", keys |-> keys, homework_name |-> name, status |-> status]
\* an element of "homeworks" that is not an object (a JSON string)
HwNotDict == [t |-> "str", keys |-> {}, homework_name |-> PyNone, status |-> PyNone]

HwList(items) == [t |-> "list", items |-> items]
\* a value under "homeworks" that is not an array (a JSON object)
HwNotList == [t |-> "dict", items |-> <<>>]

RespDict(keys, hws, cd) ==
    [t |-> "dict", keys |-> keys, homeworks |-> hws, current_date |-> cd]
\* a payload that is not an object (a JSON array)
RespNotDict == [t |-> "list", keys |-> {}, homeworks |-> HwNotList, current_date |-> PyNone]

(***************************************************************************)
(* What requests.get and response.json() do in one poll: the call raises   *)
(* (net = "raise", with the error's text), or a response arrives with a    *)
(* status code and a body that parses to a payload or does not.            *)
(***************************************************************************)
NetRaise(text) ==
    [net |-> "raise", error |-> text, status_code |-> 0, json_ok |-> FALSE,
     body |-> RespNotDict]
HttpReply(code, ok, err, body) ==
    [net |-> "response", error |-> err, status_code |-> code, json_ok |-> ok,
     body |-> body]

(***************************************************************************)
(* Results of the functions: raised with exc, or returned val.             *)
(***************************************************************************)
Return(v) == [raised |-> FALSE, exc |-> NoExc, val |-> v]
Raise(e, v) == [raised |-> TRUE, exc |-> e, val |-> v]

\* the timestamp get_api_answer puts in params['from_date']
FromDate(current_timestamp, now) ==
    IF Truthy(current_timestamp) THEN current_timestamp ELSE PyInt(now)

\* the exception raised inside the outer try of get_api_answer, if any
ApiInnerError(api) ==
    IF api.net = "raise" THEN Exc("RequestException", api.error)
    ELSE IF api.status_code # HTTP_OK
         THEN Exc("ConnectionError",
                  "No response received,error code: " \o ToString(api.status_code))
    ELSE IF ~api.json_ok
         THEN Exc("Exception",
                  "Format of the received response is not JSON: " \o api.error)
    ELSE NoExc

\* params is the query of the request sent
get_api_answer(current_timestamp, now, api) ==
    LET params == [from_date |-> FromDate(current_timestamp, now)]
    IN  [params |-> params] @@
        (IF ApiInnerError(api) # NoExc
         THEN Raise(Exc("Exception",
                        "Error while trying to connect to the endpoint: "
                            \o ExcStr(ApiInnerError(api))),
                    RespNotDict)
         ELSE Return(api.body))

check_response(response) ==
    IF response.t # "dict"
    THEN Raise(Exc("TypeError", "The response received from the API is not a dict"), <<>>)
    ELSE IF "homeworks" \notin response.keys
    THEN Raise(Exc("KeyError", "The API response has no key \"homeworks\""), <<>>)
    ELSE IF response.homeworks.t # "list"
    THEN Raise(Exc("TypeError", "The value under the key \"homeworks\" is not a list"), <<>>)
    ELSE IF "current_date" \notin response.keys
    THEN Raise(Exc("KeyError", "The API response has no key \"current_date\""), <<>>)
    ELSE IF ~IsInstanceInt(response.current_date)
    THEN Raise(Exc("TypeError", "The value under the key \"current_date\" is incorrect"), <<>>)
    ELSE Return(response.homeworks.items)

parse_status(homework) ==
    IF homework.t # "dict"
    THEN Raise(Exc("TypeError", "The homework data is not a dict"), "")
    ELSE IF "homework_name" \notin homework.keys
    THEN Raise(Exc("KeyError", "The homework data has no key \"homework_name\""), "")
    ELSE IF "status" \notin homework.keys
    THEN Raise(Exc("KeyError", "The homework data has no key \"status\""), "")
    ELSE IF ~Hashable(homework.status)
    THEN Raise(Exc("TypeError", "unhashable type: 'list'"), "")
    ELSE IF ~(homework.status.t = "str"
              /\ homework.status.s \in DOMAIN HOMEWORK_VERDICTS)
    THEN Raise(Exc("KeyError",
                   "Status " \o Str(homework.status) \o " is not recognised"), "")
    ELSE Return("The review status of the work \""
                    \o Str(homework.homework_name) \o "\" has changed. "
                    \o HOMEWORK_VERDICTS[homework.status.s])

\* one call of bot.send_message: the text handed over and whether the chat
\* received it
Call(message, delivery_raises) == [text |-> message, delivered |-> ~delivery_raises]

\* Mutant of send_message: the bot is never called.
send_message_dropped(message, delivery_raises) ==
    [raised |-> FALSE, exc |-> NoExc, calls |-> <<>>]

\* Mutant of send_message: no try/except around the bot call.
send_message_no_try(message, delivery_raises) ==
    [raised |-> delivery_raises,
     exc |-> IF delivery_raises THEN Exc("TelegramError", "chat unreachable") ELSE NoExc,
     calls |-> <<Call(message, delivery_raises)>>]

\* send_message: calls is the call it made, raised whether an exception
\* leaves it
send_message(message, delivery_raises) ==
    [raised |-> FALSE, exc |-> NoExc, calls |-> <<Call(message, delivery_raises)>>]

TokenNames == {"PRACTICUM_TOKEN", "TELEGRAM_TOKEN", "TELEGRAM_CHAT_ID"}

\* Mutant of check_tokens: any() in place of all().
check_tokens_any(env) == \E k \in TokenNames : Truthy(env[k])

check_tokens(env) == \A k \in TokenNames : Truthy(env[k])

(***************************************************************************)
(* One pass of the loop of main, up to its finally clause.                 *)
(***************************************************************************)
\* Mutant of TryBlock: the cursor assignment is indented into the
\* "if homeworks" branch.
TryBlock_cursor_in_if(current_timestamp, now, api, delivery) ==
    LET response == get_api_answer(current_timestamp, now, api)
        homeworks == check_response(response.val)
        message == parse_status(Head(homeworks.val))
        sent == send_message(message.val, delivery[1])
        Failed(e, calls) ==
            [raised |-> TRUE, exc |-> e, calls |-> calls,
             current_timestamp |-> current_timestamp]
    IN  IF response.raised THEN Failed(response.exc, <<>>)
        ELSE IF homeworks.raised THEN Failed(homeworks.exc, <<>>)
        ELSE IF homeworks.val = <<>>
        THEN [raised |-> FALSE, exc |-> NoExc, calls |-> <<>>,
              current_timestamp |-> current_timestamp]
        ELSE IF message.raised THEN Failed(message.exc, <<>>)
        ELSE IF sent.raised THEN Failed(sent.exc, sent.calls)
        ELSE [raised |-> FALSE, exc |-> NoExc, calls |-> sent.calls,
              current_timestamp |-> response.val.current_date]

\* Mutant of TryBlock: the cursor is assigned right after the fetch, before
\* the response is validated and the record formatted.
TryBlock_cursor_early(current_timestamp, now, api, delivery) ==
    LET response == get_api_answer(current_timestamp, now, api)
        homeworks == check_response(response.val)
        message == parse_status(Head(homeworks.val))
        sent == send_message(message.val, delivery[1])
        fetched == IF response.val.t = "dict" /\ "current_date" \in response.val.keys
                   THEN response.val.current_date ELSE PyNone
        Failed(e, calls, cursor) ==
            [raised |-> TRUE, exc |-> e, calls |-> calls,
             current_timestamp |-> cursor]
        Passed(calls) ==
            [raised |-> FALSE, exc |-> NoExc, calls |-> calls,
             current_timestamp |-> fetched]
    IN  IF response.raised THEN Failed(response.exc, <<>>, current_timestamp)
        ELSE IF homeworks.raised THEN Failed(homeworks.exc, <<>>, fetched)
        ELSE IF homeworks.val = <<>> THEN Passed(<<>>)
        ELSE IF message.raised THEN Failed(message.exc, <<>>, fetched)
        ELSE IF sent.raised THEN Failed(sent.exc, sent.calls, fetched)
        ELSE Passed(sent.calls)

\* Mutant of TryBlock: homeworks[-1] is formatted in place of homeworks[0].
TryBlock_last_record(current_timestamp, now, api, delivery) ==
    LET response == get_api_answer(current_timestamp, now, api)
        homeworks == check_response(response.val)
        message == parse_status(homeworks.val[Len(homeworks.val)])
        sent == send_message(message.val, delivery[1])
        Failed(e, calls) ==
            [raised |-> TRUE, exc |-> e, calls |-> calls,
             current_timestamp |-> current_timestamp]
        Passed(calls) ==
            [raised |-> FALSE, exc |-> NoExc, calls |-> calls,
             current_timestamp |-> response.val.current_date]
    IN  IF response.raised THEN Failed(response.exc, <<>>)
        ELSE IF homeworks.raised THEN Failed(homeworks.exc, <<>>)
        ELSE IF homeworks.val = <<>> THEN Passed(<<>>)
        ELSE IF message.raised THEN Failed(message.exc, <<>>)
        ELSE IF sent.raised THEN Failed(sent.exc, sent.calls)
        ELSE Passed(sent.calls)

\* Mutant of TryBlock: no "if homeworks" test, homeworks[0] is read from an
\* empty list.
TryBlock_no_if(current_timestamp, now, api, delivery) ==
    LET response == get_api_answer(current_timestamp, now, api)
        homeworks == check_response(response.val)
        message == parse_status(Head(homeworks.val))
        sent == send_message(message.val, delivery[1])
        Failed(e, calls) ==
            [raised |-> TRUE, exc |-> e, calls |-> calls,
             current_timestamp |-> current_timestamp]
        Passed(calls) ==
            [raised |-> FALSE, exc |-> NoExc, calls |-> calls,
             current_timestamp |-> response.val.current_date]
    IN  IF response.raised THEN Failed(response.exc, <<>>)
        ELSE IF homeworks.raised THEN Failed(homeworks.exc, <<>>)
        ELSE IF homeworks.val = <<>>
        THEN Failed(Exc("IndexError", "list index out of range"), <<>>)
        ELSE IF message.raised THEN Failed(message.exc, <<>>)
        ELSE IF sent.raised THEN Failed(sent.exc, sent.calls)
        ELSE Passed(sent.calls)

\* the try block: raised with exc, or completed; calls are the
\* bot.send_message calls made, current_timestamp the variable's value
\* at the end of the block
TryBlock(current_timestamp, now, api, delivery) ==
    LET response == get_api_answer(current_timestamp, now, api)
        homeworks == check_response(response.val)
        message == parse_status(Head(homeworks.val))
        sent == send_message(message.val, delivery[1])
        Failed(e, calls) ==
            [raised |-> TRUE, exc |-> e, calls |-> calls,
             current_timestamp |-> current_timestamp]
        Passed(calls) ==
            [raised |-> FALSE, exc |-> NoExc, calls |-> calls,
             current_timestamp |-> response.val.current_date]
    IN  IF response.raised THEN Failed(response.exc, <<>>)
        ELSE IF homeworks.raised THEN Failed(homeworks.exc, <<>>)
        ELSE IF homeworks.val = <<>> THEN Passed(<<>>)
        ELSE IF message.raised THEN Failed(message.exc, <<>>)
        ELSE IF sent.raised THEN Failed(sent.exc, sent.calls)
        ELSE Passed(sent.calls)

\* Mutant of ExceptBlock: the comparison with last_error_message is missing.
ExceptBlock_always(error, last_error_message, delivery_raises) ==
    LET message == "Program failure: " \o ExcStr(error)
        sent == send_message(message, delivery_raises)
    IN  [message |-> message, calls |-> sent.calls, raised |-> sent.raised,
         last_error_message |->
             IF sent.raised THEN last_error_message ELSE PyStr(message)]

\* Mutant of ExceptBlock: notifies only when no failure is on record
\* ("if last_error_message is None").
ExceptBlock_only_first(error, last_error_message, delivery_raises) ==
    LET message == "Program failure: " \o ExcStr(error)
        sent == send_message(message, delivery_raises)
    IN  IF last_error_message = PyNone
        THEN [message |-> message, calls |-> sent.calls, raised |-> sent.raised,
              last_error_message |->
                  IF sent.raised THEN last_error_message ELSE PyStr(message)]
        ELSE [message |-> message, calls |-> <<>>, raised |-> FALSE,
              last_error_message |-> last_error_message]

\* Mutant of ExceptBlock: the assignment to last_error_message is missing.
ExceptBlock_no_store(error, last_error_message, delivery_raises) ==
    LET message == "Program failure: " \o ExcStr(error)
        sent == send_message(message, delivery_raises)
    IN  IF PyStr(message) # last_error_message
        THEN [message |-> message, calls |-> sent.calls, raised |-> sent.raised,
              last_error_message |-> last_error_message]
        ELSE [message |-> message, calls |-> <<>>, raised |-> FALSE,
              last_error_message |-> last_error_message]

\* Mutant of ExceptBlock: the message is stored only when its delivery did
\* not raise.
ExceptBlock_store_if_delivered(error, last_error_message, delivery_raises) ==
    LET message == "Program failure: " \o ExcStr(error)
        sent == send_message(message, delivery_raises)
    IN  IF PyStr(message) # last_error_message
        THEN [message |-> message, calls |-> sent.calls, raised |-> sent.raised,
              last_error_message |->
                  IF sent.raised \/ delivery_raises
                  THEN last_error_message ELSE PyStr(message)]
        ELSE [message |-> message, calls |-> <<>>, raised |-> FALSE,
              last_error_message |-> last_error_message]

\* the except block: raised when an exception leaves it
ExceptBlock(error, last_error_message, delivery_raises) ==
    LET message == "Program failure: " \o ExcStr(error)
        sent == send_message(message, delivery_raises)
    IN  IF PyStr(message) # last_error_message
        THEN [message |-> message, calls |-> sent.calls, raised |-> sent.raised,
              last_error_message |->
                  IF sent.raised THEN last_error_message ELSE PyStr(message)]
        ELSE [message |-> message, calls |-> <<>>, raised |-> FALSE,
              last_error_message |-> last_error_message]

\* Mutant of main_iteration: the else clause that resets
\* last_error_message is missing.
main_iteration_no_reset(current_timestamp, last_error_message, now, api, delivery) ==
    LET try == TryBlock(current_timestamp, now, api, delivery)
        handler == ExceptBlock(try.exc, last_error_message,
                               delivery[Len(try.calls) + 1])
    IN  IF try.raised
        THEN [failed |-> TRUE, exc |-> try.exc, message |-> handler.message,
              status_calls |-> try.calls, failure_calls |-> handler.calls,
              current_timestamp |-> try.current_timestamp,
              last_error_message |-> handler.last_error_message,
              uncaught |-> handler.raised]
        ELSE [failed |-> FALSE, exc |-> NoExc, message |-> "",
              status_calls |-> try.calls, failure_calls |-> <<>>,
              current_timestamp |-> try.current_timestamp,
              last_error_message |-> last_error_message,
              uncaught |-> FALSE]

\* Mutant of main_iteration: the except block ends with a bare "raise".
main_iteration_reraise(current_timestamp, last_error_message, now, api, delivery) ==
    LET try == TryBlock(current_timestamp, now, api, delivery)
        handler == ExceptBlock(try.exc, last_error_message,
                               delivery[Len(try.calls) + 1])
    IN  IF try.raised
        THEN [failed |-> TRUE, exc |-> try.exc, message |-> handler.message,
              status_calls |-> try.calls, failure_calls |-> handler.calls,
              current_timestamp |-> try.current_timestamp,
              last_error_message |-> handler.last_error_message,
              uncaught |-> TRUE]
        ELSE [failed |-> FALSE, exc |-> NoExc, message |-> "",
              status_calls |-> try.calls, failure_calls |-> <<>>,
              current_timestamp |-> try.current_timestamp,
              last_error_message |-> PyNone,
              uncaught |-> FALSE]

\* try / except / else of one pass: failed with the exception exc and the
\* failure message when the try block raised, status_calls and failure_calls the notifications of the try and
\* of the except block, uncaught whether an exception is propagating when
\* the finally clause is entered
main_iteration(current_timestamp, last_error_message, now, api, delivery) ==
    LET try == TryBlock(current_timestamp, now, api, delivery)
        handler == ExceptBlock(try.exc, last_error_message,
                               delivery[Len(try.calls) + 1])
    IN  IF try.raised
        THEN [failed |-> TRUE, exc |-> try.exc, message |-> handler.message,
              status_calls |-> try.calls, failure_calls |-> handler.calls,
              current_timestamp |-> try.current_timestamp,
              last_error_message |-> handler.last_error_message,
              uncaught |-> handler.raised]
        ELSE [failed |-> FALSE, exc |-> NoExc, message |-> "",
              status_calls |-> try.calls, failure_calls |-> <<>>,
              current_timestamp |-> try.current_timestamp,
              last_error_message |-> PyNone,
              uncaught |-> FALSE]

(***************************************************************************)
(* The environment: what the collaborators may answer.                     *)
(***************************************************************************)
\* os.getenv of a token: unset, empty, or set
TokenValues == {PyNone, PyStr(""), PyStr("token")}

\* int(time.time()) when the process starts
StartTimes == {1}

\* records that may stand first in "homeworks"
FirstHomeworks ==
    {HwDict({"homework_name", "status"}, PyStr("A"), PyStr("rejected")),
     HwDict({"homework_name", "status"}, PyStr("X"), PyStr("approved")),
     HwDict({"homework_name", "status"}, PyStr("A"), PyStr("reviewing")),
     HwDict({"homework_name", "status"}, PyStr("A"), PyStr("unknown")),
     HwDict({"homework_name", "status"}, PyStr("A"), PyEmptyList),
     HwDict({"status"}, PyNone, PyStr("approved")),
     HwDict({"homework_name"}, PyStr("A"), PyNone),
     HwNotDict}

\* records that may follow the first
LaterHomeworks ==
    {HwDict({"homework_name", "status"}, PyStr("B"), PyStr("approved")),
     HwNotDict}

HomeworkTails == UNION {[1..k -> LaterHomeworks] : k \in 0..(MaxHw - 1)}

HomeworkLists ==
    {<<>>} \cup {<<f>> \o tl : f \in FirstHomeworks, tl \in HomeworkTails}

\* values under "current_date" that check_response accepts
CurrentDates == {PyInt(0), PyInt(1000), PyInt(2000), PyBool(TRUE)}

Payloads ==
    {RespDict({"homeworks", "current_date"}, HwList(l), cd) :
         l \in HomeworkLists, cd \in CurrentDates}
    \cup {RespNotDict,
          RespDict({"current_date"}, HwNotList, PyInt(1000)),
          RespDict({"homeworks", "current_date"}, HwNotList, PyInt(1000)),
          RespDict({"homeworks"}, HwList(<<>>), PyNone),
          RespDict({"homeworks", "current_date"}, HwList(<<>>), PyStr("1000")),
          RespDict({"homeworks", "current_date"}, HwList(<<>>), PyNone)}

ApiOutcomes ==
    {NetRaise("connection refused"),
     HttpReply(404, FALSE, "", RespNotDict),
     HttpReply(500, FALSE, "", RespNotDict),
     HttpReply(HTTP_OK, FALSE, "Expecting value", RespNotDict)}
    \cup {HttpReply(HTTP_OK, TRUE, "", p) : p \in Payloads}

\* whether each bot.send_message call of a pass raises
Deliveries == [1..2 -> BOOLEAN]

(***************************************************************************)
(* State.                                                                  *)
(***************************************************************************)
VARIABLES
    pc,                  \* "start", "poll", "sleep", "raised", "crashed"
    env,                 \* the three tokens, as loaded at import
    clock,               \* time.time()
    current_timestamp,   \* main's cursor
    last_error_message,  \* main's last reported failure message
    uncaught,            \* an exception is leaving the loop body
    iterations,          \* passes of the loop begun so far
    last,                \* the pass that has just reached finally
    prev,                \* the pass before it
    errNotified          \* failure messages notified in earlier passes

vars == <<pc, env, clock, current_timestamp, last_error_message, uncaught,
          iterations, last, prev, errNotified>>

\* no pass yet
NoPass ==
    [done |-> FALSE, api |-> NetRaise(""), now |-> 0, from_date |-> PyNone,
     cursor_before |-> PyNone, lem_before |-> PyNone,
     failed |-> FALSE, exc |-> NoExc, message |-> "",
     status_calls |-> <<>>, failure_calls |-> <<>>]

NoPrev == [done |-> FALSE, failed |-> FALSE, message |-> ""]

Init ==
    /\ pc = "start"
    /\ env \in [TokenNames -> TokenValues]
    /\ clock \in StartTimes
    /\ current_timestamp = PyNone
    /\ last_error_message = PyNone
    /\ uncaught = FALSE
    /\ iterations = 0
    /\ last = NoPass
    /\ prev = NoPrev
    /\ errNotified = {}

\* main up to the loop: the token check, the bot, the first cursor
Start ==
    /\ pc = "start"
    /\ IF check_tokens(env)
       THEN /\ pc' = "poll"
            /\ current_timestamp' = PyInt(clock)
       ELSE /\ pc' = "raised"
            /\ UNCHANGED current_timestamp
    /\ last_error_message' = PyNone
    /\ UNCHANGED <<env, clock, uncaught, iterations, last, prev, errNotified>>

\* one pass of the loop body, up to the finally clause, the request being
\* answered by one of outcomes
PollOn(outcomes) ==
    /\ pc = "poll"
    /\ iterations < MaxIter
    /\ \E api \in outcomes, delivery \in Deliveries :
           LET r == main_iteration(current_timestamp, last_error_message,
                                   clock, api, delivery)
           IN  /\ current_timestamp' = r.current_timestamp
               /\ last_error_message' = r.last_error_message
               /\ uncaught' = r.uncaught
               /\ last' = [done |-> TRUE, api |-> api, now |-> clock,
                           from_date |->
                               get_api_answer(current_timestamp, clock,
                                              api).params.from_date,
                           cursor_before |-> current_timestamp,
                           lem_before |-> last_error_message,
                           failed |-> r.failed, exc |-> r.exc,
                           message |-> r.message,
                           status_calls |-> r.status_calls,
                           failure_calls |-> r.failure_calls]
    /\ pc' = "sleep"
    /\ iterations' = iterations + 1
    /\ UNCHANGED <<env, clock, prev, errNotified>>

Poll == PollOn(ApiOutcomes)

\* Mutant of Sleep: the sleep stands in the else clause, so a failed pass
\* is followed by the next one at once.
Sleep_only_on_success ==
    /\ pc = "sleep"
    /\ clock' = IF last.failed THEN clock ELSE clock + RETRY_PERIOD
    /\ pc' = IF uncaught THEN "crashed" ELSE "poll"
    /\ prev' = [done |-> TRUE, failed |-> last.failed, message |-> last.message]
    /\ errNotified' =
           errNotified \cup {last.failure_calls[i].text : i \in DOMAIN last.failure_calls}
    /\ last' = NoPass
    /\ UNCHANGED <<env, current_timestamp, last_error_message, uncaught, iterations>>

\* the finally clause, time.sleep(RETRY_PERIOD), then the next pass or the
\* propagation of the exception that left the loop body
Sleep ==
    /\ pc = "sleep"
    /\ clock' = clock + RETRY_PERIOD
    /\ pc' = IF uncaught THEN "crashed" ELSE "poll"
    /\ prev' = [done |-> TRUE, failed |-> last.failed, message |-> last.message]
    /\ errNotified' =
           errNotified \cup {last.failure_calls[i].text : i \in DOMAIN last.failure_calls}
    /\ last' = NoPass
    /\ UNCHANGED <<env, current_timestamp, last_error_message, uncaught, iterations>>

Next == Start \/ Poll \/ Sleep

Spec == Init /\ [][Next]_vars

\* one outcome of each kind: the request raising, a status other than 200,
\* a body that is not JSON, a payload of the wrong shape, no homeworks, a
\* status change, a record of unknown status
LiveOutcomes ==
    {NetRaise("connection refused"),
     HttpReply(500, FALSE, "", RespNotDict),
     HttpReply(HTTP_OK, FALSE, "Expecting value", RespNotDict),
     HttpReply(HTTP_OK, TRUE, "", RespNotDict),
     HttpReply(HTTP_OK, TRUE, "",
               RespDict({"homeworks", "current_date"}, HwList(<<>>), PyInt(1000))),
     HttpReply(HTTP_OK, TRUE, "",
               RespDict({"homeworks", "current_date"},
                        HwList(<<HwDict({"homework_name", "status"},
                                        PyStr("A"), PyStr("rejected"))>>),
                        PyInt(2000))),
     HttpReply(HTTP_OK, TRUE, "",
               RespDict({"homeworks", "current_date"},
                        HwList(<<HwDict({"homework_name", "status"},
                                        PyStr("A"), PyStr("unknown"))>>),
                        PyInt(2000)))}

LivePoll == PollOn(LiveOutcomes)

LiveNext == Start \/ LivePoll \/ Sleep

\* the loop when every external call (the request, the delivery) and the
\* sleep return
LiveSpec == Init /\ [][LiveNext]_vars /\ WF_vars(LivePoll) /\ WF_vars(Sleep)

(***************************************************************************)
(* Vocabulary of the properties.  A pass is observed when it has reached   *)
(* its finally clause (pc = "sleep"): last describes it, prev the pass     *)
(* before it, errNotified the failure messages notified before it.         *)
(***************************************************************************)
AtSleep == pc = "sleep" /\ last.done

Texts(calls) == {calls[i].text : i \in DOMAIN calls}

DeliveredCount(calls) == Cardinality({i \in DOMAIN calls : calls[i].delivered})

\* the previous pass failed with the failure message of this one
SameFailureAsPrev == prev.done /\ prev.failed /\ prev.message = last.message

\* the previous pass failed with another failure message than this one
OtherFailureThanPrev == prev.done /\ prev.failed /\ prev.message # last.message

\* the fetch returned a payload
Fetched(api) == api.net = "response" /\ api.status_code = 200 /\ api.json_ok

\* the payload has the shape of a PollResponse
ValidPayload(p) ==
    /\ p.t = "dict"
    /\ {"homeworks", "current_date"} \subseteq p.keys
    /\ p.homeworks.t = "list"
    /\ p.current_date.t \in {"int", "bool"}

RecognizedStatuses == {"approved", "reviewing", "rejected"}

\* the record is a mapping with both fields
HasBothFields(h) == h.t = "dict" /\ {"homework_name", "status"} \subseteq h.keys

\* the record is well-formed with a recognized status
GoodRecord(h) ==
    HasBothFields(h) /\ h.status.t = "str" /\ h.status.s \in RecognizedStatuses

\* a valid response was fetched whose homeworks list starts with a good record
StatusChange(api) ==
    /\ Fetched(api)
    /\ ValidPayload(api.body)
    /\ api.body.homeworks.items # <<>>
    /\ GoodRecord(Head(api.body.homeworks.items))

\* a valid response was fetched whose homeworks list is empty
NoChange(api) ==
    Fetched(api) /\ ValidPayload(api.body) /\ api.body.homeworks.items = <<>>

Msg404 ==
    "Program failure: Error while trying to connect to the endpoint: No response received,error code: 404"

(***************************************************************************)
(* C1.  When two consecutive passes fail with the same failure message,    *)
(* the second of them invokes send_message not at all.                     *)
(***************************************************************************)
C1_RepeatedFailureSilent ==
    (AtSleep /\ last.failed /\ SameFailureAsPrev)
        => (last.failure_calls = <<>> /\ last.status_calls = <<>>)

\* the second of two equal failures, the first of which was notified
C1_Witness ==
    /\ AtSleep /\ last.failed /\ SameFailureAsPrev
    /\ last.message \in errNotified
    /\ last.failure_calls = <<>>

(***************************************************************************)
(* C2.  A pass that fails with a failure message other than that of the    *)
(* failed pass right before it invokes send_message with the new message,  *)
(* also when only the detail text (the HTTP status code) differs.          *)
(***************************************************************************)
C2_NewFailureNotified ==
    (AtSleep /\ last.failed /\ OtherFailureThanPrev)
        => (Len(last.failure_calls) = 1 /\ last.failure_calls[1].text = last.message)

\* a 500 right after a 404: same kind of failure, other detail text
C2_Witness ==
    /\ AtSleep /\ last.failed /\ OtherFailureThanPrev
    /\ prev.message = Msg404
    /\ last.api.net = "response" /\ last.api.status_code = 500
    /\ Texts(last.failure_calls) = {last.message}

(***************************************************************************)
(* C3.  After a pass that did not raise, last_error_message is None; and a *)
(* pass that fails right after a pass that did not raise invokes           *)
(* send_message with its failure message, whichever messages were notified *)
(* before.                                                                 *)
(***************************************************************************)
C3_ResetAfterSuccess ==
    /\ (AtSleep /\ ~last.failed) => last_error_message = PyNone
    /\ (AtSleep /\ last.failed /\ prev.done /\ ~prev.failed)
           => (Len(last.failure_calls) = 1
               /\ last.failure_calls[1].text = last.message)

\* failure m, a pass without error, failure m again: notified again
C3_Witness ==
    /\ AtSleep /\ last.failed /\ prev.done /\ ~prev.failed
    /\ last.message \in errNotified
    /\ Texts(last.failure_calls) = {last.message}

(***************************************************************************)
(* C4, as stated: no failure message is notified that was notified in an   *)
(* earlier pass (at most one notification per distinct failure message).   *)
(***************************************************************************)
C4_Original_OncePerMessage ==
    AtSleep => Texts(last.failure_calls) \cap errNotified = {}

(***************************************************************************)
(* C4, amended.  A pass sends at most one failure notification; it sends   *)
(* one only if it failed, the text is its own failure message, and the     *)
(* pass right before it did not fail with that same message: within a run  *)
(* of consecutive passes failing with one message only the first notifies. *)
(***************************************************************************)
C4_OncePerRun ==
    AtSleep =>
        /\ Len(last.failure_calls) <= 1
        /\ last.failure_calls # <<>> =>
               /\ last.failed
               /\ last.failure_calls[1].text = last.message
               /\ ~SameFailureAsPrev

\* the third pass of a run of one failure message, notified once so far
C4_Witness ==
    /\ AtSleep /\ iterations = 3 /\ last.failed /\ SameFailureAsPrev
    /\ errNotified = {last.message}
    /\ last.failure_calls = <<>>

(***************************************************************************)
(* C5, as stated: in a pass that fetched a status change, exactly one      *)
(* status notification reaches the recipient, whatever the delivery call   *)
(* does.                                                                   *)
(***************************************************************************)
C5_Original_AlwaysDelivered ==
    (AtSleep /\ StatusChange(last.api)) => DeliveredCount(last.status_calls) = 1

(***************************************************************************)
(* C5, amended.  In a pass that fetched a status change, send_message is   *)
(* invoked exactly once with the notification of the first record and no   *)
(* failure notification is sent; the recipient receives that notification  *)
(* at most once, and not at all when the delivery call raises.             *)
(***************************************************************************)
C5_OneStatusNotification ==
    (AtSleep /\ StatusChange(last.api)) =>
        /\ Len(last.status_calls) = 1
        /\ last.status_calls[1].text =
               parse_status(Head(last.api.body.homeworks.items)).val
        /\ last.failure_calls = <<>>
        /\ DeliveredCount(last.status_calls) <= 1

\* a status change whose delivery raised
C5_Witness ==
    /\ AtSleep /\ StatusChange(last.api)
    /\ Len(last.status_calls) = 1
    /\ ~last.status_calls[1].delivered

(***************************************************************************)
(* C6.  After a pass in which nothing raised, the cursor is the            *)
(* current_date of the response of that pass; a fetched status change and  *)
(* a fetched empty list are such passes, whatever the delivery call does.  *)
(***************************************************************************)
C6_CursorFollowsCurrentDate ==
    /\ (AtSleep /\ ~last.failed) =>
           (Fetched(last.api) /\ current_timestamp = last.api.body.current_date)
    /\ (AtSleep /\ (StatusChange(last.api) \/ NoChange(last.api))) => ~last.failed

\* the cursor moved to 2000 although the delivery of the notification raised
C6_Witness ==
    /\ AtSleep /\ ~last.failed
    /\ Len(last.status_calls) = 1 /\ ~last.status_calls[1].delivered
    /\ last.cursor_before # PyInt(2000)
    /\ current_timestamp = PyInt(2000)

(***************************************************************************)
(* C7.  A pass that fails leaves the cursor as it was when the pass began, *)
(* and a fetched payload that is not a valid response, or a first record   *)
(* that is not well-formed with a recognized status, makes the pass fail.  *)
(***************************************************************************)
C7_FailureKeepsCursor ==
    /\ (AtSleep /\ last.failed) => current_timestamp = last.cursor_before
    /\ (AtSleep /\ ~Fetched(last.api)) => last.failed
    /\ (AtSleep /\ Fetched(last.api) /\ ~ValidPayload(last.api.body)) => last.failed
    /\ (AtSleep /\ Fetched(last.api) /\ ValidPayload(last.api.body)
            /\ last.api.body.homeworks.items # <<>>
            /\ ~GoodRecord(Head(last.api.body.homeworks.items))) => last.failed

\* a payload rejected for its homeworks field, carrying a current_date other
\* than the cursor
C7_Witness ==
    /\ AtSleep /\ last.failed
    /\ Fetched(last.api) /\ ~ValidPayload(last.api.body)
    /\ "current_date" \in last.api.body.keys
    /\ last.api.body.current_date.t = "int"
    /\ last.api.body.current_date # last.cursor_before

(***************************************************************************)
(* C8, as stated: when the first record of a valid response has both       *)
(* fields and a status that is not approved, reviewing or rejected,        *)
(* parse_status raises the unknown-status error (KeyError "Status ... is   *)
(* not recognised") and no status notification is sent in that pass.       *)
(***************************************************************************)
C8_UnknownStatusError ==
    (/\ AtSleep /\ Fetched(last.api) /\ ValidPayload(last.api.body)
     /\ last.api.body.homeworks.items # <<>>
     /\ HasBothFields(Head(last.api.body.homeworks.items))
     /\ ~GoodRecord(Head(last.api.body.homeworks.items)))
        => /\ last.failed
           /\ last.exc.kind = "KeyError"
           /\ last.exc.text =
                  "Status " \o Str(Head(last.api.body.homeworks.items).status)
                      \o " is not recognised"
           /\ last.status_calls = <<>>

(***************************************************************************)
(* C9.  No exception leaves send_message: a pass never ends with an        *)
(* exception propagating out of the loop, the loop never stops, and the    *)
(* cursor, last_error_message and outcome of a pass are those the same     *)
(* pass has when every delivery succeeds.                                  *)
(***************************************************************************)
C9_DeliveryFailureIgnored ==
    /\ pc # "crashed"
    /\ ~uncaught
    /\ AtSleep =>
           LET r == main_iteration(last.cursor_before, last.lem_before, last.now,
                                   last.api, [i \in 1..2 |-> FALSE])
           IN  /\ current_timestamp = r.current_timestamp
               /\ last_error_message = r.last_error_message
               /\ last.failed = r.failed
               /\ Texts(last.status_calls) = Texts(r.status_calls)
               /\ Texts(last.failure_calls) = Texts(r.failure_calls)

\* a failure notification whose delivery raised, recorded all the same
C9_Witness ==
    /\ AtSleep /\ last.failed
    /\ Len(last.failure_calls) = 1 /\ ~last.failure_calls[1].delivered
    /\ last_error_message = PyStr(last.message)
    /\ ~uncaught

(***************************************************************************)
(* C10.  When one of the three tokens is unset or empty, main raises and   *)
(* the loop is never entered: no fetch, no notification, no sleep.  When   *)
(* all three are set and non-empty, main enters the loop.                  *)
(***************************************************************************)
AllTokensSet == \A k \in TokenNames : env[k].t = "str" /\ env[k].s # ""

C10_TokensGuardLoop ==
    /\ ~AllTokensSet =>
           /\ pc \in {"start", "raised"}
           /\ iterations = 0
           /\ clock \in StartTimes
           /\ last = NoPass /\ prev = NoPrev /\ errNotified = {}
    /\ (AllTokensSet /\ pc # "start") => pc \in {"poll", "sleep"}

\* main has raised with only the chat id empty
C10_Witness ==
    /\ pc = "raised"
    /\ env["PRACTICUM_TOKEN"] = PyStr("token")
    /\ env["TELEGRAM_TOKEN"] = PyStr("token")
    /\ env["TELEGRAM_CHAT_ID"] = PyStr("")

(***************************************************************************)
(* C11.  Once the loop is entered it has no terminal state: after every    *)
(* pass, whatever failed in it, the sleep ends and another poll is         *)
(* performed (for every pass but the last one explored).                   *)
(***************************************************************************)
C11_AnotherPollFollows ==
    \A k \in 1..(MaxIter - 1) :
        (pc = "sleep" /\ iterations = k) ~> (pc = "sleep" /\ iterations = k + 1)

\* a pass completed after a pass that failed
C11_Witness ==
    /\ AtSleep /\ iterations >= 2
    /\ prev.done /\ prev.failed
    /\ last.failed /\ Len(last.failure_calls) = 1
    /\ ~last.failure_calls[1].delivered

(***************************************************************************)
(* C12.  In a pass that fetched a status change, send_message is invoked   *)
(* exactly once, with the text built from the first record's name and the  *)
(* catalog phrase of its status, and the pass is the one the first record  *)
(* alone gives: later records, malformed or not, change nothing.           *)
(***************************************************************************)
C12_FirstRecordOnly ==
    (AtSleep /\ StatusChange(last.api)) =>
        LET first == Head(last.api.body.homeworks.items)
            alone == main_iteration(
                         last.cursor_before, last.lem_before, last.now,
                         [last.api EXCEPT !.body.homeworks.items = <<first>>],
                         [i \in 1..2 |-> FALSE])
        IN  /\ Len(last.status_calls) + Len(last.failure_calls) = 1
            /\ Texts(last.status_calls) =
                   {"The review status of the work \"" \o Str(first.homework_name)
                        \o "\" has changed. " \o HOMEWORK_VERDICTS[first.status.s]}
            /\ Texts(last.status_calls) = Texts(alone.status_calls)
            /\ last.failed = alone.failed
            /\ current_timestamp = alone.current_timestamp

\* record A rejected followed by a malformed record
C12_Witness ==
    /\ AtSleep /\ StatusChange(last.api)
    /\ Len(last.api.body.homeworks.items) = 2
    /\ last.api.body.homeworks.items[2] = HwNotDict
    /\ Texts(last.status_calls) =
           {"The review status of the work \"A\" has changed. Work checked: the reviewer has remarks."}

(***************************************************************************)
(* C13.  In a pass that fetched a valid response with an empty homeworks   *)
(* list, send_message is not invoked, the pass does not fail,              *)
(* last_error_message is None, the cursor is the response's current_date   *)
(* and the loop is at its sleep with no exception propagating.             *)
(***************************************************************************)
C13_EmptyListSilent ==
    (last.done /\ NoChange(last.api)) =>
        /\ last.status_calls = <<>> /\ last.failure_calls = <<>>
        /\ ~last.failed
        /\ last_error_message = PyNone
        /\ current_timestamp = last.api.body.current_date
        /\ pc = "sleep" /\ ~uncaught

\* {"homeworks": [], "current_date": 1000} after a failed pass
C13_Witness ==
    /\ AtSleep /\ NoChange(last.api)
    /\ last.api.body.current_date = PyInt(1000)
    /\ last.lem_before # PyNone
    /\ last_error_message = PyNone
    /\ current_timestamp = PyInt(1000)

(***************************************************************************)
(* C14.  Exactly one sleep of RETRY_PERIOD lies between two consecutive    *)
(* fetches, whether the pass between them failed or not: when the loop is  *)
(* about to fetch, as many sleeps as fetches have happened; while it       *)
(* sleeps, one less.                                                       *)
(***************************************************************************)
C14_OneSleepPerPass ==
    /\ pc = "poll" => (clock - RETRY_PERIOD * iterations) \in StartTimes
    /\ pc = "sleep" => (clock - RETRY_PERIOD * (iterations - 1)) \in StartTimes

\* about to fetch a third time, the second pass having failed
C14_Witness ==
    /\ pc = "poll" /\ iterations = 2
    /\ prev.done /\ prev.failed
    /\ (clock - 2 * RETRY_PERIOD) \in StartTimes

(***************************************************************************)
(* C15, as stated: the from_date of every request is the cursor the pass   *)
(* began with.                                                             *)
(***************************************************************************)
C15_FromDateIsCursor ==
    AtSleep => last.from_date = last.cursor_before

(***************************************************************************)
(* C16, as stated: check_response returns exactly for a mapping holding a  *)
(* list under homeworks and an integer under current_date, and otherwise   *)
(* raises for the first check violated, in the order: not a mapping,       *)
(* missing homeworks, homeworks not a list, missing current_date,          *)
(* current_date not an integer.                                            *)
(***************************************************************************)
ExpectedVerdict(p) ==
    IF p.t # "dict" THEN "not a mapping"
    ELSE IF "homeworks" \notin p.keys THEN "missing homeworks"
    ELSE IF p.homeworks.t # "list" THEN "homeworks not a list"
    ELSE IF "current_date" \notin p.keys THEN "missing current_date"
    ELSE IF p.current_date.t # "int" THEN "current_date not an integer"
    ELSE "valid"

\* the reason an outcome of check_response stands for
VerdictOf(result) ==
    IF ~result.raised THEN "valid"
    ELSE CASE result.exc = Exc("TypeError", "The response received from the API is not a dict")
                -> "not a mapping"
           [] result.exc = Exc("KeyError", "The API response has no key \"homeworks\"")
                -> "missing homeworks"
           [] result.exc = Exc("TypeError", "The value under the key \"homeworks\" is not a list")
                -> "homeworks not a list"
           [] result.exc = Exc("KeyError", "The API response has no key \"current_date\"")
                -> "missing current_date"
           [] result.exc = Exc("TypeError", "The value under the key \"current_date\" is incorrect")
                -> "current_date not an integer"
           [] OTHER -> "other"

C16_ValidatorVerdict ==
    (AtSleep /\ Fetched(last.api)) =>
        VerdictOf(check_response(last.api.body)) = ExpectedVerdict(last.api.body)

(***************************************************************************)
(* C17, as stated: a fetch that fails on a status code other than 200      *)
(* reaches the loop as the unexpected-status error (ConnectionError), a    *)
(* fetch that fails in the network call or in parsing the body as another  *)
(* kind of error.                                                          *)
(***************************************************************************)
C17_DistinctErrorKinds ==
    (AtSleep /\ ~Fetched(last.api)) =>
        /\ last.failed
        /\ (last.api.net = "response" /\ last.api.status_code # 200)
               <=> last.exc.kind = "ConnectionError"

(***************************************************************************)
(* C18.  A pass invokes send_message at most once: never a status          *)
(* notification and a failure notification both.                           *)
(***************************************************************************)
C18_AtMostOneCallPerPass ==
    AtSleep => Len(last.status_calls) + Len(last.failure_calls) <= 1

\* the delivery of a status notification raised and no failure notification
\* followed
C18_Witness ==
    /\ AtSleep /\ ~last.failed
    /\ Len(last.status_calls) = 1 /\ ~last.status_calls[1].delivered
    /\ last.failure_calls = <<>>
    /\ last_error_message = PyNone

(***************************************************************************)
(* C19.  At the start of a sleep last_error_message is None when the pass  *)
(* raised nothing and its failure message otherwise, delivered or not; so  *)
(* the next pass, if the request is answered the same way, sends no        *)
(* notification whatever the delivery would do.                            *)
(***************************************************************************)
C19_LastErrorAtSleep ==
    AtSleep =>
        /\ last_error_message = IF last.failed THEN PyStr(last.message) ELSE PyNone
        /\ last.failed =>
               \A d \in Deliveries :
                   LET again == main_iteration(current_timestamp, last_error_message,
                                               last.now + RETRY_PERIOD, last.api, d)
                   IN  again.failed /\ again.message = last.message
                       /\ again.failure_calls = <<>> /\ again.status_calls = <<>>

\* a first failure whose notification was not delivered
C19_Witness ==
    /\ AtSleep /\ last.failed
    /\ last.lem_before = PyNone
    /\ Len(last.failure_calls) = 1 /\ ~last.failure_calls[1].delivered
    /\ last_error_message = PyStr(last.message)

====
